---- MODULE Spec2Model ----
(***************************************************************************)
(* grav-sim: the gravitational N-body core (state.rs: Body, State::step,   *)
(* the energy diagnostics) and the winit application handler around it     *)
(* (app.rs: App).                                                          *)
(*                                                                         *)
(* Every number of the simulation is a Rust f32.  The model computes with  *)
(* IEEE 754 binary32 values, round to nearest even, on integers: a value   *)
(* is the record [s, e, m] of its sign bit, biased exponent and fraction.  *)
(* All NaNs are one value.  Indices are 1-based here and 0-based in the    *)
(* source.                                                                 *)
(***************************************************************************)
EXTENDS Integers, Sequences, FiniteSets, TLC

VARIABLES
    state,            \* App.state: None, or the installed State
    exit_requested,   \* event_loop.exit() was called
    redraw_requested, \* window.request_redraw() was called
    last_event,       \* the event window_event was last called with
    pc,               \* where State::step is: "idle" between calls
    i, j,             \* step's loop indices
    forces,           \* step's local `forces`: a(t) per body
    forces_new,       \* step's local `forces_new`: a(t+dt) per body
    entry,            \* the bodies when the current (or last) step was entered
    evals,            \* gravitational_force calls of that step, per pass
    steps,            \* step calls completed on the installed State
    scn,              \* the scenario the installed State was built from
    ret,              \* what the last diagnostic query returned
    free_body,        \* a Body held outside any State, as test_body_update's
    update_args,      \* the arguments Body::update was last called with
    updates           \* Body::update calls made so far

vars == <<state, exit_requested, redraw_requested, last_event, pc, i, j, forces,
          forces_new, entry, evals, steps, scn, ret, free_body, update_args, updates>>

\* ------------------------------------------------------------------------
\* f32 arithmetic
\* ------------------------------------------------------------------------
F32(s, e, m) == [s |-> s, e |-> e, m |-> m]
NaN == F32(0, 255, 2^22)
Inf(s) == F32(s, 255, 0)
Zero(s) == F32(s, 0, 0)
IsNaN(x) == x.e = 255 /\ x.m # 0
IsInf(x) == x.e = 255 /\ x.m = 0
IsZero(x) == x.e = 0 /\ x.m = 0
IsFinite(x) == x.e # 255
Sig(x) == IF x.e = 0 THEN x.m ELSE 2^23 + x.m
Exp(x) == IF x.e = 0 THEN -149 ELSE x.e - 150
Xor(a, b) == IF a = b THEN 0 ELSE 1

BitLen(n) == CHOOSE k \in 0..30 : n < 2^k /\ (k = 0 \/ n >= 2^(k-1))

Pack(s, q, e2) ==
    IF q = 0 THEN Zero(s)
    ELSE IF q = 2^24 THEN (IF e2 + 151 >= 255 THEN Inf(s) ELSE F32(s, e2 + 151, 0))
    ELSE IF q < 2^23 THEN F32(s, 0, q)
    ELSE IF e2 + 150 >= 255 THEN Inf(s)
    ELSE F32(s, e2 + 150, q - 2^23)

RoundCut(s, q, r, half, e2) ==
    Pack(s, IF r > half \/ (r = half /\ q % 2 = 1) THEN q + 1 ELSE q, e2)

RoundShift(s, sig, exp, sh) ==
    IF sh <= 0 THEN Pack(s, sig * 2^(-sh), exp + sh)
    ELSE IF sh > 30 THEN Zero(s)
    ELSE RoundCut(s, sig \div 2^sh, sig % 2^sh, 2^(sh - 1), exp + sh)

RoundAt(s, sig, exp, sh0) ==
    RoundShift(s, sig, exp, IF exp + sh0 < -149 THEN -149 - exp ELSE sh0)

RoundPack(s, sig, exp) ==
    IF sig = 0 THEN Zero(s) ELSE RoundAt(s, sig, exp, BitLen(sig) - 24)

Jam(q, sticky) == IF sticky /\ q % 2 = 0 THEN q + 1 ELSE q

ShrJam(t, d) ==
    IF d = 0 THEN t
    ELSE IF d >= 30 THEN (IF t = 0 THEN 0 ELSE 1)
    ELSE Jam(t \div 2^d, t % 2^d # 0)

AddAligned(sa, sb, x, y, e) ==
    IF sa = sb THEN RoundPack(sa, x + y, e)
    ELSE IF x = y THEN Zero(0)
    ELSE IF x > y THEN RoundPack(sa, x - y, e)
    ELSE RoundPack(sb, y - x, e)

AddFin(a, b) ==
    AddAligned(a.s, b.s, Sig(a) * 32, ShrJam(Sig(b) * 32, Exp(a) - Exp(b)), Exp(a) - 5)

FAdd(a, b) ==
    IF IsNaN(a) \/ IsNaN(b) THEN NaN
    ELSE IF IsInf(a) THEN (IF IsInf(b) /\ a.s # b.s THEN NaN ELSE a)
    ELSE IF IsInf(b) THEN b
    ELSE IF Exp(a) >= Exp(b) THEN AddFin(a, b) ELSE AddFin(b, a)

FNeg(a) == IF IsNaN(a) THEN NaN ELSE F32(1 - a.s, a.e, a.m)
FAbs(a) == IF IsNaN(a) THEN NaN ELSE F32(0, a.e, a.m)
FSub(a, b) == FAdd(a, FNeg(b))

\* the left shift that brings a nonzero significand to 24 bits
NormShift(sig) == 24 - BitLen(sig)

MulHiLo(s, hi, lo, e) == RoundPack(s, Jam(hi * 64 + lo \div 2^18, lo % 2^18 # 0), e + 18)

MulParts(s, a1b1, mid, t, e) ==
    MulHiLo(s, a1b1 + mid \div 2^12 + t \div 2^24, t % 2^24, e)

MulLimbs(s, a1, a0, b1, b0, e) ==
    MulParts(s, a1 * b1, a1 * b0 + a0 * b1, ((a1 * b0 + a0 * b1) % 2^12) * 2^12 + a0 * b0, e)

MulSig(s, x, y, e) ==
    MulLimbs(s, x \div 2^12, x % 2^12, y \div 2^12, y % 2^12, e)

MulNorm(s, sa, ka, sb, kb, e) == MulSig(s, sa * 2^ka, sb * 2^kb, e - ka - kb)

FMul(a, b) ==
    IF IsNaN(a) \/ IsNaN(b) THEN NaN
    ELSE IF IsInf(a) \/ IsInf(b)
         THEN (IF IsZero(a) \/ IsZero(b) THEN NaN ELSE Inf(Xor(a.s, b.s)))
    ELSE IF IsZero(a) \/ IsZero(b) THEN Zero(Xor(a.s, b.s))
    ELSE MulNorm(Xor(a.s, b.s), Sig(a), NormShift(Sig(a)), Sig(b), NormShift(Sig(b)),
                 Exp(a) + Exp(b))

DivStep(qr, b) == <<qr[1] * 128 + (qr[2] * 128) \div b, (qr[2] * 128) % b>>

DivFinish(s, qr, e) == RoundPack(s, qr[1] * 2 + (IF qr[2] = 0 THEN 0 ELSE 1), e - 29)

DivSig(s, x, y, e) ==
    DivFinish(s, DivStep(DivStep(DivStep(DivStep(<<x \div y, x % y>>, y), y), y), y), e)

DivNorm(s, sa, ka, sb, kb, e) == DivSig(s, sa * 2^ka, sb * 2^kb, e - ka + kb)

FDiv(a, b) ==
    IF IsNaN(a) \/ IsNaN(b) THEN NaN
    ELSE IF IsInf(a) THEN (IF IsInf(b) THEN NaN ELSE Inf(Xor(a.s, b.s)))
    ELSE IF IsInf(b) THEN Zero(Xor(a.s, b.s))
    ELSE IF IsZero(b) THEN (IF IsZero(a) THEN NaN ELSE Inf(Xor(a.s, b.s)))
    ELSE IF IsZero(a) THEN Zero(Xor(a.s, b.s))
    ELSE DivNorm(Xor(a.s, b.s), Sig(a), NormShift(Sig(a)), Sig(b), NormShift(Sig(b)),
                 Exp(a) - Exp(b))

RECURSIVE SqrtLoop(_, _, _, _)
\* one bit of the root per pair of bits of the radicand: x holds the 13 pairs of
\* the significand, followed by 14 pairs of zeros
SqrtLoop(x, k, root, rem) ==
    IF k = 27 THEN <<root, rem>>
    ELSE LET p == IF k < 13 THEN (x \div 4^(12 - k)) % 4 ELSE 0
             r4 == rem * 4 + p
             t == root * 4 + 1
         IN  IF r4 >= t THEN SqrtLoop(x, k + 1, root * 2 + 1, r4 - t)
             ELSE SqrtLoop(x, k + 1, root * 2, r4)

SqrtFinish(rr, e) == RoundPack(0, rr[1] * 2 + (IF rr[2] = 0 THEN 0 ELSE 1), e - 15)

SqrtNorm(x, e) ==
    IF e % 2 = 0 THEN SqrtFinish(SqrtLoop(x, 0, 0, 0), e \div 2)
    ELSE SqrtFinish(SqrtLoop(x * 2, 0, 0, 0), (e - 1) \div 2)

FSqrt(a) ==
    IF IsNaN(a) THEN NaN
    ELSE IF IsZero(a) THEN a
    ELSE IF a.s = 1 THEN NaN
    ELSE IF IsInf(a) THEN a
    ELSE SqrtNorm(Sig(a) * 2^NormShift(Sig(a)), Exp(a) - NormShift(Sig(a)))

\* the order of the finite and infinite values: a's place among the magnitudes
Mag(a) == a.e * 2^23 + a.m
FLt(a, b) ==
    IF IsNaN(a) \/ IsNaN(b) THEN FALSE
    ELSE IF Mag(a) = 0 /\ Mag(b) = 0 THEN FALSE
    ELSE IF a.s # b.s THEN a.s = 1
    ELSE IF a.s = 0 THEN Mag(a) < Mag(b) ELSE Mag(a) > Mag(b)
FEq(a, b) ==
    ~IsNaN(a) /\ ~IsNaN(b) /\ (a = b \/ (Mag(a) = 0 /\ Mag(b) = 0))

FromInt(n) == IF n < 0 THEN RoundPack(1, -n, 0) ELSE RoundPack(0, n, 0)

\* an f32 literal num/den: both are exact in f32, so the correctly rounded
\* quotient is the literal's value (0.0001 is Lit(1, 10000))
Lit(num, den) == FDiv(FromInt(num), FromInt(den))
Half == Lit(1, 2)
One == Lit(1, 1)
FZero == Zero(0)
NonFinite(x) == ~IsFinite(x)

\* ------------------------------------------------------------------------
\* Body
\* ------------------------------------------------------------------------

\* Body::new never takes its error path: every mass gives Ok
BodyNew(mass, position, velocity) ==
    [ok |-> TRUE,
     body |-> [mass |-> mass, position |-> position, velocity |-> velocity,
               radius |-> One]]

Hypot(dx, dy) == FSqrt(FAdd(FMul(dx, dx), FMul(dy, dy)))

DistanceTo(self, other) ==
    Hypot(FSub(self.position[1], other.position[1]),
          FSub(self.position[2], other.position[2]))

ForceFrom(direct_force, dx, dy, distance) ==
    <<FDiv(FMul(direct_force, dx), distance), FDiv(FMul(direct_force, dy), distance)>>

\* the direction taken from other toward self
ForceAtReversed(self, other, gravity, distance) ==
    ForceFrom(FDiv(FMul(FMul(gravity, self.mass), other.mass), FMul(distance, distance)),
              FSub(self.position[1], other.position[1]),
              FSub(self.position[2], other.position[2]),
              distance)

ForceAt(self, other, gravity, distance) ==
    ForceFrom(FDiv(FMul(FMul(gravity, self.mass), other.mass), FMul(distance, distance)),
              FSub(other.position[1], self.position[1]),
              FSub(other.position[2], self.position[2]),
              distance)

\* coincident bodies trapped: no force between them
GravitationalForceGuarded(self, other, gravity) ==
    IF IsZero(DistanceTo(self, other)) THEN <<FZero, FZero>>
    ELSE ForceAt(self, other, gravity, DistanceTo(self, other))

GravitationalForce(self, other, gravity) ==
    ForceAt(self, other, gravity, DistanceTo(self, other))

GetKineticEnergy(self) ==
    FMul(FMul(Half, self.mass),
         FAdd(FMul(self.velocity[1], self.velocity[1]),
              FMul(self.velocity[2], self.velocity[2])))

GetLinearMomentum(self) ==
    <<FMul(self.mass, self.velocity[1]), FMul(self.mass, self.velocity[2])>>

\* update with the position advanced by the velocity the call was entered with
UpdatePositionFirst(self, acceleration, dt) ==
    [self EXCEPT
        !.position = <<FAdd(@[1], FMul(self.velocity[1], dt)),
                       FAdd(@[2], FMul(self.velocity[2], dt))>>,
        !.velocity = <<FAdd(@[1], FMul(acceleration[1], dt)),
                       FAdd(@[2], FMul(acceleration[2], dt))>>]

\* update: the two velocity statements, then the two position statements,
\* which read the velocity just written
Update(self, acceleration, dt) ==
    LET vx == FAdd(self.velocity[1], FMul(acceleration[1], dt))
        vy == FAdd(self.velocity[2], FMul(acceleration[2], dt))
    IN  [self EXCEPT
            !.velocity = <<vx, vy>>,
            !.position = <<FAdd(@[1], FMul(vx, dt)), FAdd(@[2], FMul(vy, dt))>>]

\* ------------------------------------------------------------------------
\* State: the diagnostics
\* ------------------------------------------------------------------------

RECURSIVE KineticFold(_, _, _)
KineticFold(bodies, k, sum) ==
    IF k > Len(bodies) THEN sum
    ELSE KineticFold(bodies, k + 1, FAdd(sum, GetKineticEnergy(bodies[k])))

TotalKineticEnergy(st) == KineticFold(st.bodies, 1, FZero)

PairPotential(st, a, b) ==
    FDiv(FMul(FMul(st.g_constant, st.bodies[a].mass), st.bodies[b].mass),
         DistanceTo(st.bodies[a], st.bodies[b]))

RECURSIVE PotentialLoop(_, _, _, _)
PotentialLoop(st, a, b, potential_energy) ==
    IF a > Len(st.bodies) THEN potential_energy
    ELSE IF b > Len(st.bodies) THEN PotentialLoop(st, a + 1, a + 2, potential_energy)
    ELSE PotentialLoop(st, a, b + 1, FSub(potential_energy, PairPotential(st, a, b)))

TotalPotentialEnergy(st) == PotentialLoop(st, 1, 2, FZero)

\* the potential energy left out
TotalEnergyKineticOnly(st) == TotalKineticEnergy(st)

TotalEnergy(st) == FAdd(TotalKineticEnergy(st), TotalPotentialEnergy(st))

\* the momentum sum of the tests (test_momentum_conservation_two_body)
RECURSIVE MomentumFold(_, _, _)
MomentumFold(bodies, k, sum) ==
    IF k > Len(bodies) THEN sum
    ELSE MomentumFold(bodies, k + 1,
                      <<FAdd(sum[1], GetLinearMomentum(bodies[k])[1]),
                        FAdd(sum[2], GetLinearMomentum(bodies[k])[2])>>)

TotalMomentum(bodies) == MomentumFold(bodies, 1, <<FZero, FZero>>)

MomentumMagnitude(p) == FSqrt(FAdd(FMul(p[1], p[1]), FMul(p[2], p[2])))

\* ------------------------------------------------------------------------
\* State::step, one loop body at a time
\* ------------------------------------------------------------------------

ZeroForces(n) == [k \in 1..n |-> <<FZero, FZero>>]

\* the body of both acceleration loops: one force per pair, +f/m_i to i and
\* -f/m_j to j
\* a reaction force added with the sign of the action
AddPairSameSign(acc, f, mi, mj, a, b) ==
    [acc EXCEPT ![a] = <<FAdd(@[1], FDiv(f[1], mi)), FAdd(@[2], FDiv(f[2], mi))>>,
                ![b] = <<FAdd(@[1], FDiv(f[1], mj)), FAdd(@[2], FDiv(f[2], mj))>>]

AddPair(acc, f, mi, mj, a, b) ==
    [acc EXCEPT ![a] = <<FAdd(@[1], FDiv(f[1], mi)), FAdd(@[2], FDiv(f[2], mi))>>,
                ![b] = <<FSub(@[1], FDiv(f[1], mj)), FSub(@[2], FDiv(f[2], mj))>>]

AccumulatePair(acc, bodies, g, a, b) ==
    AddPair(acc, GravitationalForce(bodies[a], bodies[b], g),
            bodies[a].mass, bodies[b].mass, a, b)

\* the position update without the factor 0.5
UpdatePositionNoHalf(body, a, dt) ==
    [body EXCEPT !.position =
        <<FAdd(@[1], FAdd(FMul(body.velocity[1], dt), FMul(FMul(a[1], dt), dt))),
          FAdd(@[2], FAdd(FMul(body.velocity[2], dt), FMul(FMul(a[2], dt), dt)))>>]

\* x(t+dt) = x(t) + v(t) dt + 0.5 a(t) dt^2
UpdatePosition(body, a, dt) ==
    [body EXCEPT !.position =
        <<FAdd(@[1], FAdd(FMul(body.velocity[1], dt), FMul(FMul(FMul(Half, a[1]), dt), dt))),
          FAdd(@[2], FAdd(FMul(body.velocity[2], dt), FMul(FMul(FMul(Half, a[2]), dt), dt)))>>]

\* the velocity update without the factor 0.5
UpdateVelocityNoHalf(body, a, a_new, dt) ==
    [body EXCEPT !.velocity =
        <<FAdd(@[1], FMul(FAdd(a[1], a_new[1]), dt)),
          FAdd(@[2], FMul(FAdd(a[2], a_new[2]), dt))>>]

\* v(t+dt) = v(t) + 0.5 (a(t) + a(t+dt)) dt
UpdateVelocity(body, a, a_new, dt) ==
    [body EXCEPT !.velocity =
        <<FAdd(@[1], FMul(FMul(Half, FAdd(a[1], a_new[1])), dt)),
          FAdd(@[2], FMul(FMul(Half, FAdd(a[2], a_new[2])), dt))>>]

\* `for i in 0..n { for j in (i + 1)..n {`: the first pair, and the pair after
\* (a, b); a = n when the loops are over
FirstPair(n) == IF n >= 2 THEN <<1, 2>> ELSE <<n, n + 1>>
NextPair(a, b, n) ==
    IF b + 1 <= n THEN <<a, b + 1>>
    ELSE IF a + 2 <= n THEN <<a + 1, a + 2>>
    ELSE <<n, n + 1>>

\* ------------------------------------------------------------------------
\* The States the model builds
\* ------------------------------------------------------------------------

\* the steps one State is taken through
MaxSteps == 10

Params(m, px, py, vx, vy) ==
    [mass |-> m, position |-> <<px, py>>, velocity |-> <<vx, vy>>]

N(k) == Lit(k, 1)

\* Scenario 1 holds the two bodies, g and dt of State::new.  The others are
\* States a host builds through the public fields, every body through Body::new:
\* 2: unequal masses and a g that is no power of two; 3: three bodies;
\* 4: two bodies at one position; 5: three bodies, the first and the last at
\* one position; 6: one body; 7: masses 0 and -1; 8: three bodies, g = 1
ReferenceScenario ==
    [bodies |-> << Params(N(100), N(-1), N(0), N(0), N(1)),
                   Params(N(100), N(1), N(0), N(0), N(-1)) >>,
     g |-> N(1), dt |-> Lit(1, 10000)]

OtherScenarios ==
    << [bodies |-> << Params(N(3), N(-1), N(0), N(0), N(1)),
                      Params(N(7), N(1), Lit(1, 2), N(0), N(-1)) >>,
        g |-> Lit(1, 10), dt |-> Lit(1, 4)],
       [bodies |-> << Params(N(3), N(-1), N(0), N(0), N(1)),
                      Params(N(7), N(1), Lit(1, 2), N(0), N(-1)),
                      Params(N(5), N(0), N(2), N(1), N(0)) >>,
        g |-> Lit(1, 10), dt |-> Lit(1, 4)],
       [bodies |-> << Params(N(100), N(1), N(0), N(0), N(1)),
                      Params(N(100), N(1), N(0), N(0), N(-1)) >>,
        g |-> N(1), dt |-> Lit(1, 10000)],
       [bodies |-> << Params(N(2), N(1), N(1), N(0), N(1)),
                      Params(N(3), N(-1), N(0), N(0), N(0)),
                      Params(N(4), N(1), N(1), N(1), N(0)) >>,
        g |-> N(1), dt |-> Lit(1, 4)],
       [bodies |-> << Params(N(1), N(0), N(0), N(1), N(0)) >>,
        g |-> N(1), dt |-> Lit(1, 4)],
       [bodies |-> << Params(N(0), N(-1), N(0), N(0), N(1)),
                      Params(N(-1), N(1), N(0), N(0), N(-1)) >>,
        g |-> N(1), dt |-> Lit(1, 4)],
       [bodies |-> << Params(N(1), N(0), N(0), N(0), N(0)),
                      Params(N(2), N(3), N(4), N(0), Lit(-1, 2)),
                      Params(N(4), N(-2), N(1), Lit(1, 2), N(0)) >>,
        g |-> N(1), dt |-> Lit(1, 8)] >>

Scenarios == <<ReferenceScenario>> \o OtherScenarios

Reference == CHOOSE s \in 1..Len(Scenarios) : Scenarios[s] = ReferenceScenario

WindowSizes == {<<0, 0>>, <<0, 600>>, <<800, 600>>, <<1024, 768>>}

None == [tag |-> "None"]

\* `vec![Body::new(..).unwrap(), ..]`: unwrap panics on an Err, and no State is built
Unwrapped(params) ==
    [k \in 1..Len(params) |->
        BodyNew(params[k].mass, params[k].position, params[k].velocity)]

\* what Body::new returned for each body of each scenario
Built == [s \in 1..Len(Scenarios) |-> Unwrapped(Scenarios[s].bodies)]

Buildable(s) == \A k \in 1..Len(Built[s]) : Built[s][k].ok

BuildState(s, size) ==
    [tag |-> "Some",
     bodies |-> [k \in 1..Len(Built[s]) |-> Built[s][k].body],
     g_constant |-> Scenarios[s].g, time_step |-> Scenarios[s].dt,
     size |-> size, config |-> size]

StateNew(size) == BuildState(Reference, size)

Resize(st, width, height) ==
    IF width = 0 \/ height = 0 THEN st
    ELSE [st EXCEPT !.size = <<width, height>>, !.config = <<width, height>>]

NoRet == [fn |-> "none", val |-> FZero]
NoEvent == [kind |-> "none", size |-> <<0, 0>>, code |-> "none", pressed |-> FALSE]

NoUpdate == [acceleration |-> <<FZero, FZero>>, dt |-> FZero]

\* test_body_update's `Body::new(1.0, (0.0, 0.0), (0.0, 0.0)).unwrap()`
TestBody == BodyNew(One, <<FZero, FZero>>, <<FZero, FZero>>).body

NBodies == Len(state.bodies)

app_vars == <<exit_requested, redraw_requested, last_event>>
step_locals == <<i, j, forces, forces_new>>
body_vars == <<free_body, update_args, updates>>

\* ------------------------------------------------------------------------
\* State::step
\* ------------------------------------------------------------------------

StepCall ==
    /\ state # None /\ pc = "idle" /\ steps < MaxSteps
    /\ pc' = "acc1"
    /\ forces' = ZeroForces(NBodies) /\ forces_new' = <<>>
    /\ i' = FirstPair(NBodies)[1] /\ j' = FirstPair(NBodies)[2]
    /\ entry' = state.bodies /\ evals' = <<0, 0>> /\ ret' = NoRet
    /\ UNCHANGED <<state, app_vars, body_vars, steps, scn>>

Acc1Body ==
    /\ pc = "acc1" /\ j <= NBodies
    /\ forces' = AccumulatePair(forces, state.bodies, state.g_constant, i, j)
    /\ i' = NextPair(i, j, NBodies)[1] /\ j' = NextPair(i, j, NBodies)[2]
    /\ evals' = <<evals[1] + 1, evals[2]>>
    /\ UNCHANGED <<state, app_vars, body_vars, pc, forces_new, entry, steps, scn, ret>>

Acc1Done ==
    /\ pc = "acc1" /\ j > NBodies
    /\ pc' = "pos" /\ i' = 1 /\ j' = 0
    /\ UNCHANGED <<state, app_vars, body_vars, forces, forces_new, entry, evals, steps, scn, ret>>

PosBody ==
    /\ pc = "pos" /\ i <= NBodies
    /\ state' = [state EXCEPT !.bodies[i] = UpdatePosition(@, forces[i], state.time_step)]
    /\ i' = i + 1
    /\ UNCHANGED <<app_vars, body_vars, pc, j, forces, forces_new, entry, evals, steps, scn, ret>>

\* the position loop left one body early
PosDoneEarly ==
    /\ pc = "pos" /\ i >= NBodies
    /\ pc' = "acc2" /\ forces_new' = ZeroForces(NBodies)
    /\ i' = FirstPair(NBodies)[1] /\ j' = FirstPair(NBodies)[2]
    /\ UNCHANGED <<state, app_vars, body_vars, forces, entry, evals, steps, scn, ret>>

PosDone ==
    /\ pc = "pos" /\ i > NBodies
    /\ pc' = "acc2" /\ forces_new' = ZeroForces(NBodies)
    /\ i' = FirstPair(NBodies)[1] /\ j' = FirstPair(NBodies)[2]
    /\ UNCHANGED <<state, app_vars, body_vars, forces, entry, evals, steps, scn, ret>>

Acc2Body ==
    /\ pc = "acc2" /\ j <= NBodies
    /\ forces_new' = AccumulatePair(forces_new, state.bodies, state.g_constant, i, j)
    /\ i' = NextPair(i, j, NBodies)[1] /\ j' = NextPair(i, j, NBodies)[2]
    /\ evals' = <<evals[1], evals[2] + 1>>
    /\ UNCHANGED <<state, app_vars, body_vars, pc, forces, entry, steps, scn, ret>>

Acc2Done ==
    /\ pc = "acc2" /\ j > NBodies
    /\ pc' = "vel" /\ i' = 1 /\ j' = 0
    /\ UNCHANGED <<state, app_vars, body_vars, forces, forces_new, entry, evals, steps, scn, ret>>

VelBody ==
    /\ pc = "vel" /\ i <= NBodies
    /\ state' = [state EXCEPT
                    !.bodies[i] = UpdateVelocity(@, forces[i], forces_new[i], state.time_step)]
    /\ i' = i + 1
    /\ UNCHANGED <<app_vars, body_vars, pc, j, forces, forces_new, entry, evals, steps, scn, ret>>

\* a step that ends by halving the time step
VelDoneAdaptive ==
    /\ pc = "vel" /\ i > NBodies
    /\ pc' = "idle" /\ steps' = steps + 1
    /\ i' = 0 /\ j' = 0 /\ forces' = <<>> /\ forces_new' = <<>>
    /\ state' = [state EXCEPT !.time_step = FMul(Half, @)]
    /\ UNCHANGED <<app_vars, body_vars, entry, evals, scn, ret>>

\* step returns: its locals are dropped
VelDone ==
    /\ pc = "vel" /\ i > NBodies
    /\ pc' = "idle" /\ steps' = steps + 1
    /\ i' = 0 /\ j' = 0 /\ forces' = <<>> /\ forces_new' = <<>>
    /\ UNCHANGED <<state, app_vars, body_vars, entry, evals, scn, ret>>

\* ------------------------------------------------------------------------
\* The diagnostics, called by the host between steps
\* ------------------------------------------------------------------------

Query(fn, val) ==
    /\ state # None /\ pc = "idle"
    /\ ret' = [fn |-> fn, val |-> val]
    /\ UNCHANGED <<state, app_vars, body_vars, pc, step_locals, entry, evals, steps, scn>>

TotalKineticEnergyCall == Query("total_kinetic_energy", TotalKineticEnergy(state))
TotalPotentialEnergyCall == Query("total_potential_energy", TotalPotentialEnergy(state))
TotalEnergyCall == Query("total_energy", TotalEnergy(state))

\* ------------------------------------------------------------------------
\* The simulation core under a host that steps and queries it
\* ------------------------------------------------------------------------

InitCommon ==
    /\ exit_requested = FALSE /\ redraw_requested = FALSE /\ last_event = NoEvent
    /\ pc = "idle" /\ i = 0 /\ j = 0 /\ forces = <<>> /\ forces_new = <<>>
    /\ evals = <<0, 0>> /\ steps = 0 /\ ret = NoRet
    /\ update_args = NoUpdate /\ updates = 0

Init ==
    /\ InitCommon
    /\ \E s \in 1..Len(Scenarios) :
        /\ Buildable(s)
        /\ scn = s
        /\ state = BuildState(s, <<800, 600>>)
        /\ entry = state.bodies
    /\ free_body = TestBody

Next ==
    \/ StepCall \/ Acc1Body \/ Acc1Done \/ PosBody \/ PosDone
    \/ Acc2Body \/ Acc2Done \/ VelBody \/ VelDone
    \/ TotalKineticEnergyCall \/ TotalPotentialEnergyCall \/ TotalEnergyCall

Spec == Init /\ [][Next]_vars

\* ------------------------------------------------------------------------
\* App: the winit application handler
\* ------------------------------------------------------------------------

Ev(kind, size, code, pressed) ==
    [kind |-> kind, size |-> size, code |-> code, pressed |-> pressed]

\* "Focused" stands for the window events the handler has no arm for, and
\* "Unidentified" for a key that is no PhysicalKey::Code
WindowEvents ==
    {Ev(k, <<0, 0>>, "none", FALSE) : k \in {"CloseRequested", "RedrawRequested", "Focused"}}
    \cup {Ev("Resized", sz, "none", FALSE) : sz \in WindowSizes}
    \cup {Ev("KeyboardInput", <<0, 0>>, c, p) :
            c \in {"Escape", "Space", "Unidentified"}, p \in BOOLEAN}

\* window_event with the exit arms tried before the check of self.state
HandledExitFirst(ev, st, exit, redraw) ==
    CASE ev.kind = "CloseRequested" -> <<st, TRUE, redraw>>
      [] ev.kind = "KeyboardInput" /\ ev.code = "Escape" /\ ev.pressed -> <<st, TRUE, redraw>>
      [] ev.kind = "Resized" /\ st # None ->
            <<Resize(st, ev.size[1], ev.size[2]), exit, redraw>>
      [] ev.kind = "RedrawRequested" /\ st # None -> <<st, exit, TRUE>>
      [] OTHER -> <<st, exit, redraw>>

\* what window_event does to <<state, exit_requested, redraw_requested>>
Handled(ev, st, exit, redraw) ==
    IF st = None THEN <<st, exit, redraw>>
    ELSE CASE ev.kind = "CloseRequested" -> <<st, TRUE, redraw>>
           [] ev.kind = "Resized" -> <<Resize(st, ev.size[1], ev.size[2]), exit, redraw>>
           [] ev.kind = "RedrawRequested" -> <<st, exit, TRUE>>
           [] ev.kind = "KeyboardInput" /\ ev.code = "Escape" /\ ev.pressed ->
                <<st, TRUE, redraw>>
           [] OTHER -> <<st, exit, redraw>>

WindowEvent(ev) ==
    /\ ~exit_requested /\ pc = "idle"
    /\ last_event' = ev
    /\ state' = Handled(ev, state, exit_requested, redraw_requested)[1]
    /\ exit_requested' = Handled(ev, state, exit_requested, redraw_requested)[2]
    /\ redraw_requested' = Handled(ev, state, exit_requested, redraw_requested)[3]
    /\ UNCHANGED <<pc, step_locals, entry, evals, steps, scn, ret, body_vars>>

Installed(st, s) ==
    /\ state' = st /\ scn' = s
    /\ entry' = st.bodies /\ evals' = <<0, 0>> /\ steps' = 0 /\ ret' = NoRet
    /\ UNCHANGED <<pc, step_locals, exit_requested, last_event, body_vars>>

\* resumed: self.state = Some(State::new(window)), of the window's size
Resumed ==
    /\ ~exit_requested /\ pc = "idle"
    /\ \E size \in WindowSizes : Installed(StateNew(size), Reference)
    /\ UNCHANGED redraw_requested

\* user_event: the State sent to the loop is resized to its window and installed
UserEvent ==
    /\ ~exit_requested /\ pc = "idle"
    /\ \E s \in 1..Len(Scenarios), size \in WindowSizes, inner \in WindowSizes :
        /\ Buildable(s)
        /\ Installed(Resize(BuildState(s, size), inner[1], inner[2]), s)
    /\ redraw_requested' = TRUE

\* App::new
InitApp ==
    /\ InitCommon
    /\ state = None /\ scn = 0 /\ entry = <<>>
    /\ free_body = TestBody

NextApp ==
    \/ Resumed
    \/ UserEvent
    \/ \E ev \in WindowEvents : WindowEvent(ev)

SpecApp == InitApp /\ [][NextApp]_vars

\* ------------------------------------------------------------------------
\* Body::update, called by a host that also steps a State
\* ------------------------------------------------------------------------

MaxUpdates == 2

\* the bodies update is called on: the test's, and one whose velocity (0.1)
\* has no exact f32
UpdateBodies ==
    {TestBody,
     BodyNew(N(3), <<One, Half>>, <<Lit(1, 10), FNeg(One)>>).body}

\* test_body_update's `(2.0, 1.0)` and `1.0`, and inexact ones
UpdateAccelerations == {<<N(2), One>>, <<Lit(1, 3), FNeg(Lit(1, 10))>>, <<FZero, N(3)>>}
UpdateSteps == {One, Lit(1, 10)}

UpdateCall ==
    /\ pc = "idle" /\ updates < MaxUpdates
    /\ \E acceleration \in UpdateAccelerations, dt \in UpdateSteps :
        /\ free_body' = Update(free_body, acceleration, dt)
        /\ update_args' = [acceleration |-> acceleration, dt |-> dt]
    /\ updates' = updates + 1
    /\ UNCHANGED <<state, app_vars, pc, step_locals, entry, evals, steps, scn, ret>>

InitBody ==
    /\ InitCommon
    /\ scn = Reference /\ state = StateNew(<<800, 600>>) /\ entry = state.bodies
    /\ free_body \in UpdateBodies

NextBody ==
    \/ UpdateCall
    \/ StepCall \/ Acc1Body \/ Acc1Done \/ PosBody \/ PosDone
    \/ Acc2Body \/ Acc2Done \/ VelBody \/ VelDone

SpecBody == InitBody /\ [][NextBody]_vars

\* ------------------------------------------------------------------------
\* What the claims are stated with
\* ------------------------------------------------------------------------

\* the number of steps the conservation tests run
TestSteps == 10

FLe(a, b) == FLt(a, b) \/ FEq(a, b)
FMax(a, b) == IF FLt(a, b) THEN b ELSE a

\* the bodies as Body::new returned them: the installed State at construction
InitialBodies == [k \in 1..Len(Built[scn]) |-> Built[scn][k].body]
InitialState == BuildState(scn, <<0, 0>>)

PositiveMasses(bodies) == \A k \in 1..Len(bodies) : FLt(FZero, bodies[k].mass)
FinitePositions(bodies) ==
    \A k \in 1..Len(bodies) :
        IsFinite(bodies[k].position[1]) /\ IsFinite(bodies[k].position[2])
SamePosition(a, b) ==
    FEq(a.position[1], b.position[1]) /\ FEq(a.position[2], b.position[2])
DistinctPositions(bodies) ==
    \A a, b \in 1..Len(bodies) : a # b => ~SamePosition(bodies[a], bodies[b])

\* x and y differ by at most 2^-20 of the larger magnitude (16 units in the
\* last place of an f32)
Tolerance == Lit(1, 1048576)
Close(x, y) == FLe(FAbs(FSub(x, y)), FMul(Tolerance, FMax(FAbs(x), FAbs(y))))
Hundredth == Lit(1, 100)

\* C1: Body::new fails for every mass <= 0, so every Body of a State has
\* mass > 0.  Body::new has no failing path: State 7 holds masses 0 and -1.
C1_EveryBodyHasPositiveMass ==
    state # None => PositiveMasses(state.bodies)

\* C2 as claimed: total linear momentum is exactly its initial value after any
\* number of steps, for positive masses at distinct positions.
C2_MomentumExactlyConserved ==
    (pc = "idle" /\ PositiveMasses(InitialBodies) /\ DistinctPositions(InitialBodies))
        => /\ FEq(TotalMomentum(state.bodies)[1], TotalMomentum(InitialBodies)[1])
           /\ FEq(TotalMomentum(state.bodies)[2], TotalMomentum(InitialBodies)[2])

\* C2 as amended: in the two-body symmetric scenario of State::new the magnitude
\* of the total linear momentum stays within 0.01 of its initial value after
\* every completed step.
C2_ReferenceMomentumWithinTolerance ==
    (scn = Reference /\ pc = "idle")
        => FLt(FAbs(FSub(MomentumMagnitude(TotalMomentum(state.bodies)),
                         MomentumMagnitude(TotalMomentum(InitialBodies)))),
               Hundredth)

C2_Witness == scn = Reference /\ pc = "idle" /\ steps = TestSteps

\* the force on body a of the pair {a, b}: the pair is evaluated once, from its
\* lower index, and the higher index takes the negation
PairForceOn(bodies, g, a, b) ==
    IF a < b THEN GravitationalForce(bodies[a], bodies[b], g)
    ELSE <<FNeg(GravitationalForce(bodies[b], bodies[a], g)[1]),
           FNeg(GravitationalForce(bodies[b], bodies[a], g)[2])>>

RECURSIVE AccelerationFold(_, _, _, _, _)
\* a_a: the sum over the other bodies b, in index order, of force(a, b) / m_a
AccelerationFold(bodies, g, a, b, sum) ==
    IF b > Len(bodies) THEN sum
    ELSE IF b = a THEN AccelerationFold(bodies, g, a, b + 1, sum)
    ELSE AccelerationFold(bodies, g, a, b + 1,
            <<FAdd(sum[1], FDiv(PairForceOn(bodies, g, a, b)[1], bodies[a].mass)),
              FAdd(sum[2], FDiv(PairForceOn(bodies, g, a, b)[2], bodies[a].mass))>>)

Acceleration(bodies, g, a) == AccelerationFold(bodies, g, a, 1, <<FZero, FZero>>)

\* x + (v dt + 0.5 a dt dt), per component
VerletPosition(x, v, a, dt) == FAdd(x, FAdd(FMul(v, dt), FMul(FMul(FMul(Half, a), dt), dt)))
\* v + 0.5 (a + a_new) dt, per component
VerletVelocity(v, a, a_new, dt) == FAdd(v, FMul(FMul(Half, FAdd(a, a_new)), dt))

PositionAfter(old, g, dt, k) ==
    <<VerletPosition(old[k].position[1], old[k].velocity[1], Acceleration(old, g, k)[1], dt),
      VerletPosition(old[k].position[2], old[k].velocity[2], Acceleration(old, g, k)[2], dt)>>

VelocityAfter(old, new, g, dt, k) ==
    <<VerletVelocity(old[k].velocity[1], Acceleration(old, g, k)[1],
                     Acceleration(new, g, k)[1], dt),
      VerletVelocity(old[k].velocity[2], Acceleration(old, g, k)[2],
                     Acceleration(new, g, k)[2], dt)>>

PairCount(n) == (n * (n - 1)) \div 2

ForceMagnitude(f) == Hypot(f[1], f[2])
DirectForce(a, b, g) ==
    FDiv(FMul(FMul(g, a.mass), b.mass), FMul(DistanceTo(a, b), DistanceTo(a, b)))
\* no component of f points against the offset from a to b
PointsToward(f, a, b) ==
    \A c \in 1..2 :
        /\ FLt(a.position[c], b.position[c]) => FLe(FZero, f[c])
        /\ FLt(b.position[c], a.position[c]) => FLe(f[c], FZero)
        /\ FEq(a.position[c], b.position[c]) => FEq(f[c], FZero)
ForcePairs ==
    {ab \in (1..NBodies) \X (1..NBodies) :
        /\ ab[1] # ab[2]
        /\ ~SamePosition(state.bodies[ab[1]], state.bodies[ab[2]])}
\* x is zero or a normal number: neither overflowed nor underflowed
InRange(x) == IsZero(x) \/ (x.e >= 1 /\ x.e <= 254)
ForceInRange(a, b, g) ==
    /\ InRange(FMul(DistanceTo(a, b), DistanceTo(a, b))) /\ InRange(DirectForce(a, b, g))
    /\ InRange(GravitationalForce(a, b, g)[1]) /\ InRange(GravitationalForce(a, b, g)[2])
ForceCase ==
    /\ state # None /\ pc = "idle"
    /\ FLt(FZero, state.g_constant)
    /\ PositiveMasses(state.bodies) /\ FinitePositions(state.bodies)

C4_PhasesInOrder ==
    /\ pc = "acc2" =>
            \A k \in 1..NBodies :
                state.bodies[k].position =
                    PositionAfter(entry, state.g_constant, state.time_step, k)
    /\ pc \in {"acc1", "pos", "acc2"} =>
            \A k \in 1..NBodies : state.bodies[k].velocity = entry[k].velocity
    /\ pc \in {"acc1", "pos"} => evals[2] = 0

C4_Witness ==
    /\ pc = "acc2" /\ scn = 3 /\ steps = 1 /\ evals[2] = 2
    /\ \A k \in 1..NBodies : state.bodies[k].position # entry[k].position

\* C5: one step takes body i to position x_i + v_i dt + 0.5 a_i(t) dt^2 and
\* velocity v_i + 0.5 (a_i(t) + a_i(t+dt)) dt, a_i the sum over the other bodies
\* j of force(i, j) / m_i at the positions before (a_i(t)) and after
\* (a_i(t+dt)) the step, with n(n-1)/2 force evaluations in each pass.
C5_StepIsVelocityVerlet ==
    (pc = "idle" /\ steps >= 1) =>
        /\ \A k \in 1..NBodies :
            /\ state.bodies[k].position =
                   PositionAfter(entry, state.g_constant, state.time_step, k)
            /\ state.bodies[k].velocity =
                   VelocityAfter(entry, state.bodies, state.g_constant, state.time_step, k)
        /\ evals = <<PairCount(NBodies), PairCount(NBodies)>>

C5_Witness ==
    /\ pc = "idle" /\ scn = 3 /\ steps = 3 /\ evals = <<3, 3>>
    /\ \A k \in 1..NBodies : IsFinite(state.bodies[k].velocity[1])

\* C6: every key press the handler handles advances the simulation by exactly
\* one step.  window_event has no arm that calls step: a key press leaves the
\* bodies and the step count as they were.
C6_KeyPressStepsOnce ==
    [][(state # None /\ last_event' # last_event
            /\ last_event'.kind = "KeyboardInput" /\ last_event'.pressed)
        => steps' = steps + 1]_vars

AllNonFinite(body) ==
    /\ NonFinite(body.position[1]) /\ NonFinite(body.position[2])
    /\ NonFinite(body.velocity[1]) /\ NonFinite(body.velocity[2])
Coincident(a, b) ==
    /\ IsFinite(a.position[1]) /\ IsFinite(a.position[2]) /\ SamePosition(a, b)
CoincidentPairs(bodies) ==
    {ab \in (1..Len(bodies)) \X (1..Len(bodies)) :
        ab[1] < ab[2] /\ Coincident(bodies[ab[1]], bodies[ab[2]])}
C7_ForceNonFinite ==
    state # None =>
        \A ab \in CoincidentPairs(state.bodies) :
            /\ IsZero(DistanceTo(state.bodies[ab[1]], state.bodies[ab[2]]))
            /\ NonFinite(GravitationalForce(state.bodies[ab[1]], state.bodies[ab[2]],
                                            state.g_constant)[1])
            /\ NonFinite(GravitationalForce(state.bodies[ab[1]], state.bodies[ab[2]],
                                            state.g_constant)[2])
C7_StepEndsNonFinite ==
    \A ab \in CoincidentPairs(entry) :
        /\ pc \in {"pos", "acc2", "vel"} =>
                \A c \in 1..2 : NonFinite(forces[ab[1]][c]) /\ NonFinite(forces[ab[2]][c])
        /\ (pc = "idle" /\ steps >= 1) =>
                AllNonFinite(state.bodies[ab[1]]) /\ AllNonFinite(state.bodies[ab[2]])
C7_StaysNonFinite ==
    \A k \in 1..NBodies : AllNonFinite(state.bodies[k]) => AllNonFinite(state'.bodies[k])

\* C7: a pair of coincident bodies gets a non-finite force from
\* gravitational_force; a step entered with such a pair ends with the positions
\* and velocities of both non-finite; and a body whose positions and velocities
\* are non-finite keeps them non-finite through every later loop body of step.
C7_CoincidentBodiesGoNonFinite ==
    /\ [](C7_ForceNonFinite /\ C7_StepEndsNonFinite)
    /\ [][C7_StaysNonFinite]_vars

C7_Witness ==
    /\ pc = "idle" /\ steps = 3 /\ scn = 5
    /\ CoincidentPairs(InitialBodies) = {<<1, 3>>}
    /\ AllNonFinite(state.bodies[1]) /\ AllNonFinite(state.bodies[3])

C8_QueryLeavesState ==
    (pc = "idle" /\ pc' = "idle" /\ ret' # ret) => state' = state
C8_EnergyIsSum ==
    ret.fn = "total_energy" =>
        ret.val = FAdd(TotalKineticEnergy(state), TotalPotentialEnergy(state))

\* C8: a diagnostic query changes nothing of the State, and what total_energy
\* returned is total_kinetic_energy() + total_potential_energy() of the State
\* as it is until the next step: a second call returns the same value.
C8_QueriesArePure ==
    /\ []C8_EnergyIsSum
    /\ [][C8_QueryLeavesState]_vars

C8_Witness ==
    /\ ret.fn = "total_energy" /\ scn = 3 /\ steps = 2
    /\ IsFinite(ret.val) /\ ~IsZero(TotalPotentialEnergy(state))

\* C9: after any sequence of steps the State holds as many bodies as at its
\* construction, each with the mass and the radius of the body constructed
\* at its index, and the g_constant and time_step it was constructed with.
C9_StepChangesOnlyPositionsAndVelocities ==
    state # None =>
        /\ Len(state.bodies) = Len(InitialBodies)
        /\ \A k \in 1..Len(InitialBodies) :
            /\ state.bodies[k].mass = InitialBodies[k].mass
            /\ state.bodies[k].radius = InitialBodies[k].radius
        /\ state.g_constant = InitialState.g_constant
        /\ state.time_step = InitialState.time_step

C9_Witness ==
    /\ pc = "idle" /\ steps = 4 /\ scn = 3
    /\ \A k \in 1..NBodies :
        /\ state.bodies[k].position # InitialBodies[k].position
        /\ state.bodies[k].velocity # InitialBodies[k].velocity

\* C10: in the two-body symmetric scenario of State::new, after 10 steps the
\* total energy differs from the initial total energy by less than 0.01.
C10_ReferenceEnergyWithinTolerance ==
    (scn = Reference /\ pc = "idle" /\ steps = TestSteps)
        => FLt(FAbs(FSub(TotalEnergy(state), TotalEnergy(InitialState))), Hundredth)

C10_Witness ==
    /\ scn = Reference /\ pc = "idle" /\ steps = TestSteps
    /\ IsFinite(TotalEnergy(state))
    /\ state.bodies[1].position # InitialBodies[1].position

\* C11: a call of Body::update(acceleration, dt) leaves the body with velocity
\* = old velocity + acceleration*dt and position = old position + (that new
\* velocity)*dt, each as f32 operations, and with its mass and radius as they
\* were; called on a body at the origin at rest with acceleration (2,1) and
\* dt = 1 it leaves velocity (2,1) and position (2,1); and no part of
\* State::step calls update: while step runs, the count of update calls and
\* the body outside the State stay as they are.
C11_UpdateResult ==
    updates' # updates =>
        LET a == update_args'.acceleration
            dt == update_args'.dt
        IN  /\ free_body'.velocity =
                <<FAdd(free_body.velocity[1], FMul(a[1], dt)),
                  FAdd(free_body.velocity[2], FMul(a[2], dt))>>
            /\ free_body'.position =
                <<FAdd(free_body.position[1], FMul(free_body'.velocity[1], dt)),
                  FAdd(free_body.position[2], FMul(free_body'.velocity[2], dt))>>
            /\ free_body'.mass = free_body.mass
            /\ free_body'.radius = free_body.radius

C11_TestCase ==
    (/\ updates' # updates
     /\ free_body.position = <<FZero, FZero>> /\ free_body.velocity = <<FZero, FZero>>
     /\ update_args' = [acceleration |-> <<N(2), One>>, dt |-> One])
    => /\ free_body'.velocity = <<N(2), One>>
       /\ free_body'.position = <<N(2), One>>

C11_StepNeverUpdates ==
    (<<pc, step_locals, steps, state.bodies>>' # <<pc, step_locals, steps, state.bodies>>)
    => UNCHANGED body_vars

C11_UpdateAdvancesVelocityThenPosition ==
    [][C11_UpdateResult /\ C11_TestCase /\ C11_StepNeverUpdates]_vars

\* the test's body after its one update, with a whole step taken as well
C11_Witness ==
    /\ updates = 1 /\ steps >= 1 /\ pc = "idle"
    /\ update_args = [acceleration |-> <<N(2), One>>, dt |-> One]
    /\ free_body.mass = One
    /\ free_body.velocity = <<N(2), One>> /\ free_body.position = <<N(2), One>>

\* the events that ask the event loop to exit once a State is installed
ExitEvent(ev) ==
    \/ ev.kind = "CloseRequested"
    \/ ev.kind = "KeyboardInput" /\ ev.code = "Escape" /\ ev.pressed

\* what window_event would do with each event in the present state
C12_HandlerOutcome ==
    \A ev \in WindowEvents :
        LET out == Handled(ev, state, FALSE, redraw_requested)
        IN  IF state = None
            THEN out = <<None, FALSE, redraw_requested>>
            ELSE out[2] <=> ExitEvent(ev)

\* what each delivery of a window event did
C12_Delivery ==
    /\ (state = None /\ (state' = None \/ last_event' # last_event)) =>
            /\ state' = None
            /\ UNCHANGED <<exit_requested, redraw_requested>>
            /\ UNCHANGED <<pc, step_locals, entry, evals, steps, scn, ret, body_vars>>
    /\ (state # None /\ last_event' # last_event) =>
            (exit_requested' <=> ExitEvent(last_event'))
    /\ (exit_requested' /\ ~exit_requested) =>
            state # None /\ ExitEvent(last_event')

\* C12: while App.state is None a window event does nothing at all: state
\* stays None, nothing is resized, no redraw is requested and the event loop
\* is not asked to exit, CloseRequested and a pressed Escape included; with
\* a State installed the event loop is asked to exit by CloseRequested and
\* by a pressed Escape, and by no other key event (a released Escape, any
\* other key, a key that is no PhysicalKey::Code).
C12_WindowEventsBeforeInstall == []C12_HandlerOutcome /\ [][C12_Delivery]_vars

\* CloseRequested was delivered before any State was installed, and the
\* loop still runs
C12_Witness ==
    /\ state = None /\ last_event.kind = "CloseRequested"
    /\ ~exit_requested /\ ~redraw_requested
====
